---- MODULE Spec2Model ----
(***************************************************************************)
(* A model of the lifeguard object pool (src/src/lib.rs).                  *)
(*                                                                         *)
(* Pool<T> keeps a stash (RefCell<Vec<T>>) of idle values.  Recycled<T>    *)
(* is the handle: an Option<T> slot plus a reference to the stash of the   *)
(* pool it is bound to.  Dropping a handle resets its value and pushes it  *)
(* onto that stash; detach takes the value out and suppresses the return.  *)
(*                                                                         *)
(* T is modelled as the built-in String / Vec conformance: a value has a   *)
(* content (a sequence of characters) and a reserved capacity.  An id is   *)
(* attached to every value so that moves can be followed.                  *)
(*                                                                         *)
(* Spec and SpecTwo take every operation as one step, on one pool and on   *)
(* two.  SpecApi is one pool with the calls counted.  SpecCell follows the *)
(* operations call by call, with the borrow flag of the RefCell and with   *)
(* user-supplied T::new / reset / initialize_with that may call back into  *)
(* the pool.                                                               *)
(***************************************************************************)
EXTENDS Integers, Sequences, FiniteSets, Bags, TLC

\* ------------------------------------------------------------------ bounds
\* the largest size a pool is built with
MaxN == 1
\* the number of values ever constructed, by the pools or by their callers
MaxIds == 3
\* the number of values outside the stashes at once: live handles and bare values
MaxOut == 2
\* the number of nested calls followed when operations are taken step by step
MaxDepth == 5
\* the number of attach, Recycled::detach and Pool::detached calls counted, each
MaxCalls == 2

Pools == {"P", "Q"}
\* the capacities callers reserve: none, or room for every content below
Caps == {0, 4}
\* the contents callers write and pass as sources: "", "a", "b", "ab"
Contents == {<<>>, <<"a">>, <<"b">>, <<"a", "b">>}

Max2(a, b) == IF a >= b THEN a ELSE b

VARIABLES
  values,     \* values[p]: Pool::values of pool p, the stash; the top is the last element
  handles,    \* the bag of live Recycled handles, each [value: Option<T>, pool]
  owned,      \* bare T values the caller holds (detached, taken out, not yet dropped)
  nextId,     \* the id the next constructed value gets
  panicked,   \* a panic!/unwrap on an empty slot has happened
  initN,      \* initN[p]: the size pool p was built with
  scen,       \* scen[p]: observer of the scenario played on pool p since it was built
  lifo,       \* lifo[p]: ids returned to p and not handed out since, in order of return
  borrow,     \* the borrow flag of the RefCell around the stash: "free" or "mut"
  frames,     \* the calls in progress, outermost first, when operations are followed
              \* step by step; empty between operations
  calls       \* the calls counted on pool "P" where conservation is checked: fresh
              \* constructions on an empty stash, attach, Recycled::detach, Pool::detached

vars == <<values, handles, owned, nextId, panicked, initN, scen, lifo, borrow, frames, calls>>

\* ------------------------------------------------------- Option<T> as a sequence
None == <<>>
Some(v) == <<v>>
is_some(o) == o # <<>>

\* ------------------------------------------------------- Recycleable / InitializeWith
\* Recycleable::new for String and Vec<T>: String::new() / Vec::new()
T_new(i) == [id |-> i, content |-> <<>>, cap |-> 0]

reset_realloc(v) == [v EXCEPT !.content = <<>>, !.cap = 0]
reset_noop(v) == v
\* Recycleable::reset for String and Vec<T>: self.clear()
reset(v) == [v EXCEPT !.content = <<>>]

\* the capacity push_str leaves behind: unchanged when the bytes fit, else grown
\* as the standard vector grows (at least doubled, at least 4)
push_cap(cap, need) ==
  IF need <= cap THEN cap ELSE Max2(Max2(2 * cap, need), 4)

\* InitializeWith<A> for String: self.push_str(source.as_ref())
initialize_with(v, source) ==
  [v EXCEPT !.content = v.content \o source,
            !.cap = push_cap(v.cap, Len(v.content) + Len(source))]

\* ------------------------------------------------------- Pool
with_size_inclusive(sz, first) == [i \in 1..(sz + 1) |-> T_new(first + i - 1)]
\* Pool::with_size: (0..size).map(|_| T::new()).collect()
with_size(sz, first) == [i \in 1..sz |-> T_new(first + i - 1)]

\* Pool::size: self.values.borrow().len()
size(p) == Len(values[p])

Front(s) == SubSeq(s, 1, Len(s) - 1)
LastOf(s) == s[Len(s)]

detached_always_fresh(p) ==
  [v |-> T_new(nextId), rest |-> values[p], fresh |-> TRUE]
detached_fifo(p) ==
  IF values[p] # <<>>
  THEN [v |-> Head(values[p]), rest |-> Tail(values[p]), fresh |-> FALSE]
  ELSE [v |-> T_new(nextId), rest |-> values[p], fresh |-> TRUE]
detached_peek(p) ==
  IF values[p] # <<>>
  THEN [v |-> LastOf(values[p]), rest |-> values[p], fresh |-> FALSE]
  ELSE [v |-> T_new(nextId), rest |-> values[p], fresh |-> TRUE]
\* Pool::detached: match self.values.borrow_mut().pop() { Some(v) => v, None => T::new() }
detached(p) ==
  IF values[p] # <<>>
  THEN [v |-> LastOf(values[p]), rest |-> Front(values[p]), fresh |-> FALSE]
  ELSE [v |-> T_new(nextId), rest |-> values[p], fresh |-> TRUE]

\* ------------------------------------------------------- Recycled
\* Recycled::new
Recycled_new(p, v) == [value |-> Some(v), pool |-> p]

\* Recycled::new_from: value.initialize_with(source), then wrap
Recycled_new_from(p, v, source) ==
  [value |-> Some(initialize_with(v, source)), pool |-> p]

drop_no_return(h, st) == st
drop_bounded(h, st) ==
  IF is_some(h.value) /\ Len(st[h.pool]) < 1
  THEN [st EXCEPT ![h.pool] = Append(@, reset(h.value[1]))]
  ELSE st
drop_capped(h, st) ==
  IF is_some(h.value) /\ Len(st[h.pool]) <= 1
  THEN [st EXCEPT ![h.pool] = Append(@, reset(h.value[1]))]
  ELSE st
drop_double_push(h, st) ==
  IF is_some(h.value)
  THEN [st EXCEPT ![h.pool] = Append(Append(@, reset(h.value[1])), reset(h.value[1]))]
  ELSE st
drop_no_reset(h, st) ==
  IF is_some(h.value)
  THEN [st EXCEPT ![h.pool] = Append(@, h.value[1])]
  ELSE st
drop_always_push(h, st) ==
  [st EXCEPT ![h.pool] = Append(@, IF is_some(h.value) THEN reset(h.value[1]) ELSE T_new(0))]
drop_other_pool(h, st) ==
  IF is_some(h.value)
  THEN [st EXCEPT ![CHOOSE q \in Pools : q # h.pool] = Append(@, reset(h.value[1]))]
  ELSE st
\* Drop for Recycled: if let Some(mut value) = self.value.take()
\*                      { value.reset(); self.pool.borrow_mut().push(value); }
\* The stash function after handle record h is destroyed.
drop(h, st) ==
  IF is_some(h.value)
  THEN [st EXCEPT ![h.pool] = Append(@, reset(h.value[1]))]
  ELSE st

\* ------------------------------------------------------- observers
\* scen[p] follows the operations on pool p while they spell one of
\*   new^k drop^j                      "acquiring", "dropping"
\*   new^k drop^k new^j                "reacquiring"
\*   new^k drop^k new_from(src)        "re_new_from"
\*   new_from(src) detach              "new_from", "new_from_detach"
\*   (attach(v) drop)^r                "attach", "attach_drop"
\*   (attach(v) drop)^r new            "attach_drop_new"
\* and is "other" from the first operation that leaves them.
\*   acq: the number k of new() calls, or the number r of attach-drop cycles;
\*   ord: the ids dropped, in order;
\*   got: the ids handed out again, in order;  src: the source or donated content;
\*   held: the content the handle dropped last held when it was dropped.
Scen(phase, acq, ord, got, src, held) ==
  [phase |-> phase, acq |-> acq, ord |-> ord, got |-> got, src |-> src, held |-> held]
scen_init == Scen("init", 0, <<>>, <<>>, <<>>, <<>>)
scen_other == Scen("other", 0, <<>>, <<>>, <<>>, <<>>)

scen_new(sc, id, live) ==
  CASE sc.phase \in {"init", "acquiring"} ->
         Scen("acquiring", sc.acq + 1, <<>>, <<>>, <<>>, <<>>)
    [] sc.phase \in {"dropping", "reacquiring"} /\ live = Len(sc.got)
         /\ Len(sc.got) < Len(sc.ord) ->
         Scen("reacquiring", sc.acq, sc.ord, Append(sc.got, id), <<>>, sc.held)
    [] sc.phase = "attach_drop" -> Scen("attach_drop_new", 0, <<>>, <<>>, sc.src, sc.held)
    [] OTHER -> scen_other
scen_new_from(sc, source, live) ==
  CASE sc.phase = "init" -> Scen("new_from", 0, <<>>, <<>>, source, <<>>)
    [] sc.phase = "dropping" /\ live = 0 ->
         Scen("re_new_from", sc.acq, sc.ord, <<>>, source, sc.held)
    [] OTHER -> scen_other
scen_attach(sc, v) ==
  IF sc.phase \in {"init", "attach_drop"}
  THEN Scen("attach", sc.acq, <<>>, <<>>, v.content, <<>>)
  ELSE scen_other
scen_drop(sc, v) ==
  CASE sc.phase \in {"acquiring", "dropping"} ->
         Scen("dropping", sc.acq, Append(sc.ord, v.id), <<>>, <<>>, v.content)
    [] sc.phase = "attach" -> Scen("attach_drop", sc.acq + 1, <<>>, <<>>, sc.src, v.content)
    [] OTHER -> scen_other
scen_detach(sc) ==
  IF sc.phase = "new_from" THEN Scen("new_from_detach", 0, <<>>, <<>>, sc.src, <<>>)
  ELSE scen_other
scen_deref_mut(sc) ==
  IF sc.phase \in {"init", "acquiring", "dropping"} THEN sc ELSE scen_other

\* lifo[p]: a drop appends the id it returns, an acquisition removes the id it hands out
lifo_drop(l, id) == Append(l, id)
lifo_acq(l, id) == SelectSeq(l, LAMBDA x : x # id)

\* ------------------------------------------------------- state
Handles == BagToSet(handles)
\* the number of live handles bound to pool p
LiveOn(p) == BagCardinality([h \in {x \in Handles : x.pool = p} |-> handles[h]])
With(b, h) == b (+) SetToBag({h})
Without(b, h) == b (-) SetToBag({h})

\* values held outside every stash: in a handle slot or by the caller
Out == BagCardinality(handles) + Cardinality(owned)

\* values a caller can construct on its own: String::from(..), Vec::with_capacity(..)
External(CS) == {[id |-> nextId, content |-> sc[1], cap |-> sc[2]] :
                   sc \in {x \in CS \X Caps : x[2] >= Len(x[1])}}

\* The pools of PS have been built by Pool::with_size(n[p]); ids are given in order.
Built(PS, n) ==
  [p \in Pools |-> IF p \in PS
                   THEN with_size(n[p], IF p = "P" \/ "P" \notin PS THEN 1 ELSE n["P"] + 1)
                   ELSE <<>>]
SumN(PS, n) == IF PS = {} THEN 0
               ELSE IF Cardinality(PS) = 1 THEN n[CHOOSE p \in PS : TRUE]
               ELSE n["P"] + n["Q"]

InitOn(PS) ==
  /\ \E n \in [PS -> 0..MaxN] :
       /\ SumN(PS, n) <= MaxIds
       /\ initN = [p \in Pools |-> IF p \in PS THEN n[p] ELSE 0]
       /\ values = Built(PS, n)
       /\ nextId = SumN(PS, n) + 1
  /\ handles = EmptyBag
  /\ owned = {}
  /\ panicked = FALSE
  /\ scen = [p \in Pools |-> scen_init]
  /\ lifo = [p \in Pools |-> <<>>]
  /\ borrow = "free"
  /\ frames = <<>>
  /\ calls = [fresh |-> 0, attach |-> 0, detach |-> 0, detached |-> 0]

\* a panic ends the program: the unwinding destroys every handle and both pools
Abort ==
  /\ panicked' = TRUE
  /\ values' = [p \in Pools |-> <<>>]
  /\ handles' = EmptyBag
  /\ owned' = {}
  /\ scen' = [p \in Pools |-> scen_other]
  /\ lifo' = [p \in Pools |-> <<>>]
  /\ borrow' = "free"
  /\ frames' = <<>>
  /\ UNCHANGED <<nextId, initN, calls>>

\* Pool::new: let t = self.detached(); Recycled::new(&self.values, t)
New(p) ==
  /\ ~panicked
  /\ Out < MaxOut
  /\ values[p] # <<>> \/ nextId <= MaxIds
  /\ LET r == detached(p)
     IN  /\ values' = [values EXCEPT ![p] = r.rest]
         /\ handles' = With(handles, Recycled_new(p, r.v))
         /\ nextId' = IF r.fresh THEN nextId + 1 ELSE nextId
         /\ scen' = [scen EXCEPT ![p] = scen_new(@, r.v.id, LiveOn(p))]
         /\ lifo' = [lifo EXCEPT ![p] = lifo_acq(@, r.v.id)]
  /\ UNCHANGED <<owned, panicked, initN, borrow, frames>>

\* Pool::new_from: let t = self.detached(); Recycled::new_from(&self.values, t, source)
NewFrom(p, source) ==
  /\ ~panicked
  /\ Out < MaxOut
  /\ values[p] # <<>> \/ nextId <= MaxIds
  /\ LET r == detached(p)
     IN  /\ values' = [values EXCEPT ![p] = r.rest]
         /\ handles' = With(handles, Recycled_new_from(p, r.v, source))
         /\ nextId' = IF r.fresh THEN nextId + 1 ELSE nextId
         /\ lifo' = [lifo EXCEPT ![p] = lifo_acq(@, r.v.id)]
  /\ scen' = [scen EXCEPT ![p] = scen_new_from(@, source, LiveOn(p))]
  /\ UNCHANGED <<owned, panicked, initN, borrow, frames>>

\* Pool::attach: Recycled::new(&self.values, value); the value is moved in,
\* either one the caller already holds or one it constructs for the call.
Attach(p, v) ==
  /\ ~panicked
  /\ v \in owned \/ (Out < MaxOut /\ nextId <= MaxIds /\ v.id = nextId)
  /\ UNCHANGED <<values, panicked, initN, lifo, borrow, frames>>
  /\ owned' = owned \ {v}
  /\ nextId' = IF v \in owned THEN nextId ELSE nextId + 1
  /\ handles' = With(handles, Recycled_new(p, v))
  /\ scen' = [scen EXCEPT ![p] = scen_attach(@, v)]

\* Pool::detached called by the user: the value is handed over bare
Detached(p) ==
  /\ ~panicked
  /\ Out < MaxOut
  /\ values[p] # <<>> \/ nextId <= MaxIds
  /\ LET r == detached(p)
     IN  /\ values' = [values EXCEPT ![p] = r.rest]
         /\ owned' = owned \cup {r.v}
         /\ nextId' = IF r.fresh THEN nextId + 1 ELSE nextId
         /\ lifo' = [lifo EXCEPT ![p] = lifo_acq(@, r.v.id)]
  /\ scen' = [scen EXCEPT ![p] = scen_other]
  /\ UNCHANGED <<handles, panicked, initN, borrow, frames>>

Detach_no_take(h) ==
  /\ ~panicked
  /\ h \in Handles
  /\ is_some(h.value)
  /\ values' = drop(h, values)
  /\ handles' = Without(handles, h)
  /\ owned' = owned \cup {h.value[1]}
  /\ scen' = [scen EXCEPT ![h.pool] = scen_detach(@)]
  /\ UNCHANGED <<nextId, panicked, initN, lifo, borrow, frames>>
\* Recycled::detach: let value = self.value.take().unwrap(); drop(self); value
\* unwrap panics on an empty slot.
Detach(h) ==
  /\ ~panicked
  /\ h \in Handles
  /\ LET rec == h
         emptied == [rec EXCEPT !.value = None]
     IN  IF is_some(rec.value)
         THEN /\ values' = drop(emptied, values)
              /\ handles' = Without(handles, h)
              /\ owned' = owned \cup {rec.value[1]}
              /\ scen' = [scen EXCEPT ![rec.pool] = scen_detach(@)]
              /\ UNCHANGED <<nextId, panicked, initN, lifo, borrow, frames>>
         ELSE Abort

\* a handle goes out of scope: Drop::drop runs
Drop(h) ==
  /\ ~panicked
  /\ h \in Handles
  /\ LET rec == h
     IN  /\ values' = drop(rec, values)
         /\ handles' = Without(handles, h)
         /\ IF is_some(rec.value)
            THEN /\ scen' = [scen EXCEPT ![rec.pool] = scen_drop(@, rec.value[1])]
                 /\ lifo' = [lifo EXCEPT ![rec.pool] = lifo_drop(@, rec.value[1].id)]
            ELSE /\ scen' = [scen EXCEPT ![rec.pool] = scen_other]
                 /\ lifo' = lifo
  /\ UNCHANGED <<owned, nextId, panicked, initN, borrow, frames>>

\* DerefMut / AsMut: the caller mutates the value through the handle
\* (push, push_str, clear, reserve, shrink_to_fit, ...); panics on an empty slot.
DerefMut(h, s, c) ==
  /\ ~panicked
  /\ h \in Handles
  /\ c >= Len(s)
  /\ LET rec == h
     IN  IF is_some(rec.value)
         THEN /\ rec.value[1].content # s \/ rec.value[1].cap # c
              /\ handles' = With(Without(handles, h),
                                  [h EXCEPT !.value = Some([id |-> rec.value[1].id,
                                                            content |-> s, cap |-> c])])
              /\ scen' = [scen EXCEPT ![rec.pool] = scen_deref_mut(@)]
              /\ UNCHANGED <<values, owned, nextId, panicked, initN, lifo, borrow, frames>>
         ELSE Abort

\* the slot is a public field (pub value: Option<T>): h.value.take()
ValueTake(h) ==
  /\ ~panicked
  /\ h \in Handles
  /\ is_some(h.value)
  /\ Out < MaxOut
  /\ owned' = owned \cup {h.value[1]}
  /\ handles' = With(Without(handles, h), [h EXCEPT !.value = None])
  /\ scen' = [scen EXCEPT ![h.pool] = scen_other]
  /\ UNCHANGED <<values, nextId, panicked, initN, lifo, borrow, frames>>

\* the caller drops a bare T it owns: an ordinary destructor, no pool involved
DropValue(v) ==
  /\ ~panicked
  /\ v \in owned
  /\ owned' = owned \ {v}
  /\ UNCHANGED <<values, handles, nextId, panicked, initN, scen, lifo, borrow, frames>>

\* PS: the pools built; CS: the contents callers write and pass as sources
NextOn(PS, CS) ==
  \/ \E p \in PS : New(p) /\ UNCHANGED calls
  \/ \E p \in PS, s \in CS : NewFrom(p, s) /\ UNCHANGED calls
  \/ \E p \in PS : \E v \in owned \cup External(CS) : Attach(p, v) /\ UNCHANGED calls
  \/ \E p \in PS : Detached(p) /\ UNCHANGED calls
  \/ \E h \in Handles : Detach(h) /\ UNCHANGED calls
  \/ \E h \in Handles : Drop(h) /\ UNCHANGED calls
  \/ \E h \in Handles, s \in CS, c \in Caps : DerefMut(h, s, c) /\ UNCHANGED calls
  \/ \E h \in Handles : ValueTake(h) /\ UNCHANGED calls
  \/ \E v \in owned : DropValue(v) /\ UNCHANGED calls

\* one pool and its callers
Init == InitOn({"P"})
Next == NextOn({"P"}, Contents)
Spec == Init /\ [][Next]_vars

\* two pools built alike, side by side
InitTwo == InitOn(Pools) /\ initN["P"] = initN["Q"]
NextTwo == NextOn(Pools, {<<>>})
SpecTwo == InitTwo /\ [][NextTwo]_vars

\* ------------------------------------------------------- step by step
\* The operations of one pool followed call by call, with a Recycleable /
\* InitializeWith implementation supplied by the user: T::new, reset and
\* initialize_with are user code, which may call back into the pool.
\* A frame is one call in progress: op is the function, pc the place in it,
\* v the value it works on (an Option), src the source of a new_from.
CP == "P"
UserOps == {"T_new", "reset", "initialize_with"}
Frame(op, pc, v, src) == [op |-> op, pc |-> pc, v |-> v, src |-> src]
Top == frames[Len(frames)]
Push(f) == Append(frames, f)
Pop == Front(frames)
\* the top frame replaced by f
Retop(fs, f) == [fs EXCEPT ![Len(fs)] = f]

\* a pool operation can be called by the program between operations, or by user
\* code the pool is running
CanCall ==
  /\ ~panicked
  /\ IF frames = <<>> THEN TRUE ELSE Top.op \in UserOps /\ Len(frames) < MaxDepth
InLibrary(ops, pc) ==
  /\ ~panicked
  /\ frames # <<>>
  /\ Top.op \in ops
  /\ Top.pc = pc
Quiet == UNCHANGED <<initN, scen, lifo, calls>>

\* pool.new() is called
CallNew ==
  /\ CanCall
  /\ Out < MaxOut
  /\ frames' = Push(Frame("new", "detached", None, <<>>))
  /\ UNCHANGED <<values, handles, owned, nextId, panicked, borrow>>
  /\ Quiet

\* pool.new_from(source) is called
CallNewFrom(source) ==
  /\ CanCall
  /\ Out < MaxOut
  /\ frames' = Push(Frame("new_from", "detached", None, source))
  /\ UNCHANGED <<values, handles, owned, nextId, panicked, borrow>>
  /\ Quiet

\* pool.detached() is called
CallDetached ==
  /\ CanCall
  /\ Out < MaxOut
  /\ frames' = Push(Frame("detached", "detached", None, <<>>))
  /\ UNCHANGED <<values, handles, owned, nextId, panicked, borrow>>
  /\ Quiet

\* pool.size() is called
CallSize ==
  /\ CanCall
  /\ frames' = Push(Frame("size", "borrow", None, <<>>))
  /\ UNCHANGED <<values, handles, owned, nextId, panicked, borrow>>
  /\ Quiet

\* a handle goes out of scope: Drop::drop is entered
CallDrop(h) ==
  /\ CanCall
  /\ h \in Handles
  /\ handles' = Without(handles, h)
  /\ frames' = Push(Frame("drop", "take", h.value, <<>>))
  /\ UNCHANGED <<values, owned, nextId, panicked, borrow>>
  /\ Quiet

\* Pool::size: self.values.borrow().len(); borrow() panics while the stash is
\* mutably borrowed, and the shared borrow ends with the expression
StepSize ==
  /\ InLibrary({"size"}, "borrow")
  /\ IF borrow = "mut"
     THEN Abort
     ELSE /\ frames' = Pop
          /\ UNCHANGED <<values, handles, owned, nextId, panicked, borrow>>
          /\ Quiet

pop_released(b) == "free"
\* The borrow flag while the arm of detached's match runs: the RefMut that
\* borrow_mut() returns is a temporary of the scrutinee, dropped at the end of
\* the match statement, so the arm runs with the stash still mutably borrowed.
pop_held(b) == "mut"

\* Pool::detached (called directly or by new / new_from):
\*   match self.values.borrow_mut().pop() { Some(v) => v, None => T::new() }
\* borrow_mut() panics when the stash is borrowed already. With Some(v) the arm
\* is v itself and the match is over; with None the arm calls T::new().
StepDetached ==
  /\ InLibrary({"new", "new_from", "detached"}, "detached")
  /\ IF borrow = "mut"
     THEN Abort
     ELSE LET r == detached(CP)
          IN  IF ~r.fresh
              THEN /\ values' = [values EXCEPT ![CP] = r.rest]
                   /\ frames' = Retop(frames, [Top EXCEPT !.pc = "got", !.v = Some(r.v)])
                   /\ UNCHANGED <<handles, owned, nextId, panicked, borrow>>
                   /\ Quiet
              ELSE /\ nextId <= MaxIds
                   /\ borrow' = pop_held(borrow)
                   /\ frames' = Append(Retop(frames, [Top EXCEPT !.pc = "none_arm"]),
                                       Frame("T_new", "user", None, <<>>))
                   /\ UNCHANGED <<values, handles, owned, nextId, panicked>>
                   /\ Quiet

\* the user's T::new() returns to the None arm of detached; the match ends and
\* the RefMut is dropped
ReturnNew ==
  /\ InLibrary({"T_new"}, "user")
  /\ frames' = Retop(Pop, [frames[Len(frames) - 1] EXCEPT !.pc = "got", !.v = Some(T_new(nextId))])
  /\ nextId' = nextId + 1
  /\ borrow' = "free"
  /\ UNCHANGED <<values, handles, owned, panicked>>
  /\ Quiet

\* detached has its value: detached returns it bare, new wraps it
\* (Recycled::new), new_from enters Recycled::new_from, which calls
\* value.initialize_with(source)
StepGot ==
  /\ InLibrary({"new", "new_from", "detached"}, "got")
  /\ CASE Top.op = "detached" ->
            /\ owned' = owned \cup {Top.v[1]}
            /\ frames' = Pop
            /\ UNCHANGED handles
       [] Top.op = "new" ->
            /\ handles' = With(handles, Recycled_new(CP, Top.v[1]))
            /\ frames' = Pop
            /\ UNCHANGED owned
       [] Top.op = "new_from" ->
            /\ frames' = Append(Retop(frames, [Top EXCEPT !.pc = "initialize"]),
                                Frame("initialize_with", "user", None, <<>>))
            /\ UNCHANGED <<handles, owned>>
  /\ UNCHANGED <<values, nextId, panicked, borrow>>
  /\ Quiet

\* the user's initialize_with returns; Recycled::new_from builds the handle
ReturnInit ==
  /\ InLibrary({"initialize_with"}, "user")
  /\ LET f == frames[Len(frames) - 1]
     IN  /\ handles' = With(handles, Recycled_new_from(CP, f.v[1], f.src))
         /\ frames' = Front(Pop)
  /\ UNCHANGED <<values, owned, nextId, panicked, borrow>>
  /\ Quiet

\* Drop::drop: if let Some(mut value) = self.value.take() { value.reset(); ...
StepTake ==
  /\ InLibrary({"drop"}, "take")
  /\ IF is_some(Top.v)
     THEN frames' = Append(Retop(frames, [Top EXCEPT !.pc = "reset"]),
                           Frame("reset", "user", None, <<>>))
     ELSE frames' = Pop
  /\ UNCHANGED <<values, handles, owned, nextId, panicked, borrow>>
  /\ Quiet

\* the user's reset returns to Drop::drop
ReturnReset ==
  /\ InLibrary({"reset"}, "user")
  /\ frames' = Retop(Pop, [frames[Len(frames) - 1] EXCEPT !.pc = "push", !.v = Some(reset(@[1]))])
  /\ UNCHANGED <<values, handles, owned, nextId, panicked, borrow>>
  /\ Quiet

\* Drop::drop: ... self.pool.borrow_mut().push(value); } the RefMut is a
\* temporary of this statement
StepPush ==
  /\ InLibrary({"drop"}, "push")
  /\ IF borrow = "mut"
     THEN Abort
     ELSE /\ values' = [values EXCEPT ![CP] = Append(@, Top.v[1])]
          /\ frames' = Pop
          /\ UNCHANGED <<handles, owned, nextId, panicked, borrow>>
          /\ Quiet

\* a bare value is dropped by whoever holds it
CellDropValue(v) ==
  /\ IF frames = <<>> THEN TRUE ELSE Top.op \in UserOps
  /\ DropValue(v)
  /\ UNCHANGED calls

NextCell ==
  \/ CallNew
  \/ \E source \in {<<"a">>} : CallNewFrom(source)
  \/ CallDetached
  \/ CallSize
  \/ \E h \in Handles : CallDrop(h)
  \/ StepSize
  \/ StepDetached
  \/ ReturnNew
  \/ StepGot
  \/ ReturnInit
  \/ StepTake
  \/ ReturnReset
  \/ StepPush
  \/ \E v \in owned : CellDropValue(v)

SpecCell == Init /\ [][NextCell]_vars

\* ------------------------------------------------------- the operations, counted
\* One pool used through new, new_from, attach, detached, detach and handle
\* drops (values may be written through the handle and bare values dropped; the
\* slot is left alone), each call counted.
Count(nf, na, nd, nt) ==
  calls' = [fresh |-> calls.fresh + nf, attach |-> calls.attach + na,
            detach |-> calls.detach + nd, detached |-> calls.detached + nt]
Fresh(p) == IF detached(p).fresh THEN 1 ELSE 0

ApiNew(p) == New(p) /\ Count(Fresh(p), 0, 0, 0)
ApiNewFrom(p, source) == NewFrom(p, source) /\ Count(Fresh(p), 0, 0, 0)
ApiAttach(p, v) == calls.attach < MaxCalls /\ Attach(p, v) /\ Count(0, 1, 0, 0)
ApiDetached(p) == calls.detached < MaxCalls /\ Detached(p) /\ Count(Fresh(p), 0, 0, 1)
ApiDetach(h) == calls.detach < MaxCalls /\ is_some(h.value) /\ Detach(h) /\ Count(0, 0, 1, 0)
ApiDrop(h) == Drop(h) /\ UNCHANGED calls

NextApi ==
  \/ ApiNew(CP)
  \/ \E source \in {<<>>, <<"a">>} : ApiNewFrom(CP, source)
  \/ \E v \in owned \cup External({<<>>}) : ApiAttach(CP, v)
  \/ ApiDetached(CP)
  \/ \E h \in Handles : ApiDetach(h)
  \/ \E h \in Handles : ApiDrop(h)
  \/ \E h \in Handles, c \in Caps : DerefMut(h, <<>>, c) /\ UNCHANGED calls
  \/ \E v \in owned : DropValue(v) /\ UNCHANGED calls

SpecApi == Init /\ [][NextApi]_vars

\* ======================================================= properties
StashIds(p) == {values[p][i].id : i \in DOMAIN values[p]}
Loaded(p) == {h \in Handles : h.pool = p /\ is_some(h.value)}
\* the handles a step has added, and the bare values it has handed to the caller
NewHandles == {h \in BagToSet(handles') : CopiesIn(h, handles') > CopiesIn(h, handles)}
NewOwned == owned' \ owned

\* C1. Right after Pool::with_size(N) the stash holds exactly N values, each as
\* the fresh constructor makes it (no content, no capacity), and size() is N.
C1_PrePopulated ==
  \A p \in Pools :
    scen[p].phase = "init" =>
      /\ size(p) = initN[p]
      /\ DOMAIN values[p] = 1..initN[p]
      /\ \A i \in DOMAIN values[p] : values[p][i].content = <<>> /\ values[p][i].cap = 0
C1_Witness ==
  /\ scen["P"].phase = "init"
  /\ initN["P"] >= 1
  /\ size("P") = initN["P"]

\* C2. Acquiring never grows the stash: new() on a pool of size s >= 1 returns a
\* loaded handle and leaves size s - 1; no new, new_from or detached increases size.
C2_Step ==
  \A p \in Pools :
    /\ (New(p) /\ size(p) >= 1) =>
         /\ size(p)' = size(p) - 1
         /\ \E h \in NewHandles : h.pool = p /\ is_some(h.value)
    /\ (New(p) \/ Detached(p) \/ \E s \in Contents : NewFrom(p, s)) =>
         size(p)' <= size(p)
C2_AcquireDoesNotGrow == [][C2_Step]_vars
C2_Witness ==
  /\ scen["P"].phase = "acquiring"
  /\ scen["P"].acq = 1
  /\ initN["P"] >= 1
  /\ size("P") = initN["P"] - 1
  /\ Loaded("P") # {}

\* C3 as stated: after k new() and then k drops, for every k, size() is N again.
C3_Original ==
  \A p \in Pools :
    (scen[p].phase = "dropping" /\ LiveOn(p) = 0) => size(p) = initN[p]
\* C3 amended: for every N and every k <= N, acquiring k handles with new() and
\* then dropping all k restores size() == N.
C3_RestoredUpToN ==
  \A p \in Pools :
    (scen[p].phase = "dropping" /\ LiveOn(p) = 0 /\ scen[p].acq <= initN[p]) =>
      size(p) = initN[p]
C3_Witness ==
  /\ scen["P"].phase = "dropping"
  /\ LiveOn("P") = 0
  /\ scen["P"].acq >= 1
  /\ scen["P"].acq <= initN["P"]
  /\ size("P") = initN["P"]

\* C4. Growth on demand: from with_size(N), after the i-th new() with no drop in
\* between size() is max(N - i, 0); after all k handles are dropped it is max(N, k).
C4_GrowthOnDemand ==
  \A p \in Pools :
    /\ scen[p].phase \in {"init", "acquiring"} =>
         size(p) = Max2(initN[p] - scen[p].acq, 0)
    /\ (scen[p].phase = "dropping" /\ LiveOn(p) = 0) =>
         size(p) = Max2(initN[p], scen[p].acq)
C4_Witness ==
  /\ scen["P"].phase = "dropping"
  /\ LiveOn("P") = 0
  /\ scen["P"].acq >= 2
  /\ scen["P"].acq > initN["P"]
  /\ size("P") = scen["P"].acq

\* C5. Reset on return: every value sitting in a stash is empty, whatever its
\* handle held when dropped and also when it was donated non-empty through attach;
\* so what new() hands out right after a return is observed empty.
C5_StashIsReset ==
  \A p \in Pools :
    /\ \A i \in DOMAIN values[p] : values[p][i].content = <<>>
    /\ scen[p].phase \in {"reacquiring", "attach_drop_new"} =>
         \A h \in Loaded(p) : h.value[1].content = <<>>
C5_Step ==
  \A p \in Pools :
    /\ New(p) => \A h \in NewHandles : is_some(h.value) /\ h.value[1].content = <<>>
    /\ Detached(p) => \A v \in NewOwned : v.content = <<>>
C5_ResetOnReturn == [](C5_StashIsReset) /\ [][C5_Step]_vars
C5_Witness ==
  /\ scen["P"].phase = "attach_drop_new"
  /\ scen["P"].src # <<>>
  /\ scen["P"].held = scen["P"].src
  /\ \E h \in Loaded("P") : h.value[1].content = <<>> /\ h.value[1].cap >= Len(scen["P"].src)

\* C6. Storage retention: a drop puts the handle's value on the stash with its
\* capacity unchanged and its length 0, and an acquisition from a non-empty stash
\* hands out a stash value as it is; so a value that reached capacity c >= 4 comes
\* back with length 0 and capacity c.
C6_Step ==
  /\ \A h \in Handles :
       (Drop(h) /\ is_some(h.value)) =>
         \E i \in DOMAIN values'[h.pool] :
           /\ i \notin DOMAIN values[h.pool]
           /\ values'[h.pool][i] =
                [id |-> h.value[1].id, content |-> <<>>, cap |-> h.value[1].cap]
  /\ \A p \in Pools :
       (New(p) /\ values[p] # <<>>) =>
         \E i \in DOMAIN values[p] : Recycled_new(p, values[p][i]) \in NewHandles
  /\ \A p \in Pools :
       (Detached(p) /\ values[p] # <<>>) =>
         \E i \in DOMAIN values[p] : values[p][i] \in NewOwned
C6_StorageRetained == [][C6_Step]_vars
C6_Witness ==
  /\ scen["P"].phase = "reacquiring"
  /\ scen["P"].held # <<>>
  /\ \E h \in Loaded("P") :
       /\ h.value[1].id = scen["P"].ord[Len(scen["P"].ord)]
       /\ h.value[1].content = <<>>
       /\ h.value[1].cap >= 4

\* C7. Detach suppresses return: Recycled::detach leaves every size() as it was,
\* hands the caller the handle's value with content and capacity untouched,
\* consumes the handle, and pushes nothing; no step moves a value the caller
\* holds bare onto a stash.
C7_Step ==
  /\ \A h \in Handles :
       (Detach(h) /\ is_some(h.value)) =>
         /\ \A p \in Pools : size(p)' = size(p) /\ values'[p] = values[p]
         /\ h.value[1] \in NewOwned
         /\ handles' = Without(handles, h)
  /\ \A v \in owned :
       /\ DropValue(v) => values' = values
       /\ \A p \in Pools : v.id \notin StashIds(p) => v.id \notin StashIds(p)'
C7_DetachSuppressesReturn == [][C7_Step]_vars
C7_Witness ==
  /\ scen["P"].phase = "new_from_detach"
  /\ scen["P"].src = <<"a", "b">>
  /\ initN["P"] = 0
  /\ size("P") = 0
  /\ handles = EmptyBag
  /\ \E v \in owned : v.content = scen["P"].src

\* C8. new_from(source) yields a handle whose content is exactly the source, in
\* every reachable pool state: stash empty, pre-populated, or holding values
\* that were used and returned.
C8_Step ==
  \A p \in Pools : \A s \in Contents :
    NewFrom(p, s) =>
      \E h \in NewHandles : h.pool = p /\ is_some(h.value) /\ h.value[1].content = s
C8_NewFromIsSource == [][C8_Step]_vars
C8_Witness ==
  /\ scen["P"].phase = "re_new_from"
  /\ scen["P"].held # <<>>
  /\ scen["P"].src # <<>>
  /\ scen["P"].src # scen["P"].held
  /\ \E h \in Loaded("P") :
       /\ h.value[1].id = scen["P"].ord[Len(scen["P"].ord)]
       /\ h.value[1].content = scen["P"].src

\* C9. Attach routes to this pool: attach changes no size(); dropping a loaded
\* handle adds exactly one to the size() of the pool it is bound to and leaves the
\* other pool's size() alone, also when the value never came from that pool.
C9_Step ==
  /\ \A p \in Pools : \A v \in owned \cup {h.value[1] : h \in {g \in NewHandles : is_some(g.value)}} :
       Attach(p, v) =>
         /\ \A q \in Pools : size(q)' = size(q)
         /\ Recycled_new(p, v) \in NewHandles
  /\ \A h \in Handles :
       (is_some(h.value) /\ Drop(h)) =>
         /\ size(h.pool)' = size(h.pool) + 1
         /\ \A q \in Pools \ {h.pool} : size(q)' = size(q)
C9_AttachRoutesHere == [][C9_Step]_vars
\* a value built by Q's with_size, taken bare out of Q, attached to P and dropped
C9_Witness ==
  /\ scen["P"].phase = "attach_drop"
  /\ size("P") = initN["P"] + 1
  /\ size("Q") = initN["Q"] - 1
  /\ values["P"][size("P")].id > initN["P"]
  /\ values["P"][size("P")].id <= initN["P"] + initN["Q"]

\* C10. LIFO reuse: an acquisition hands out the value returned last among those
\* still idle; handles dropped in the order A, B (, C) are handed out again
\* as (C,) B, A.
C10_Scenario ==
  \A p \in Pools :
    scen[p].phase = "reacquiring" =>
      \A i \in 1..Len(scen[p].got) :
        scen[p].got[i] = scen[p].ord[Len(scen[p].ord) - i + 1]
C10_Step ==
  \A p \in Pools :
    ((New(p) \/ Detached(p) \/ \E s \in Contents : NewFrom(p, s)) /\ lifo[p] # <<>>) =>
      /\ lifo'[p] = Front(lifo[p])
      /\ LastOf(lifo[p]) \notin StashIds(p)'
      /\ \/ \E h \in NewHandles : is_some(h.value) /\ h.value[1].id = LastOf(lifo[p])
         \/ \E v \in NewOwned : v.id = LastOf(lifo[p])
C10_LIFO == [](C10_Scenario) /\ [][C10_Step]_vars
C10_Witness ==
  /\ scen["P"].phase = "reacquiring"
  /\ Len(scen["P"].ord) = 2
  /\ scen["P"].ord[1] < scen["P"].ord[2]
  /\ scen["P"].got = <<scen["P"].ord[2], scen["P"].ord[1]>>

\* C11. new() and detached() never fail: on an empty stash each constructs one
\* fresh empty value, hands it out (in a loaded handle for new, bare for
\* detached) and leaves size() at 0; on a non-empty stash each removes exactly
\* the top value, hands that one out and constructs nothing.
C11_Step ==
  \A p \in Pools :
    /\ (New(p) \/ Detached(p)) => ~panicked'
    /\ (New(p) /\ values[p] = <<>>) =>
         /\ size(p)' = 0
         /\ nextId' = nextId + 1
         /\ Recycled_new(p, T_new(nextId)) \in NewHandles
    /\ (Detached(p) /\ values[p] = <<>>) =>
         /\ size(p)' = 0
         /\ nextId' = nextId + 1
         /\ T_new(nextId) \in NewOwned
    /\ (New(p) /\ values[p] # <<>>) =>
         /\ values'[p] = Front(values[p])
         /\ nextId' = nextId
         /\ Recycled_new(p, LastOf(values[p])) \in NewHandles
    /\ (Detached(p) /\ values[p] # <<>>) =>
         /\ values'[p] = Front(values[p])
         /\ nextId' = nextId
         /\ LastOf(values[p]) \in NewOwned
C11_NeverFails == [][C11_Step]_vars
\* detached() on an empty stash, then new() on the stash still empty
C11_Witness ==
  /\ ~panicked
  /\ initN["P"] = 0
  /\ size("P") = 0
  /\ T_new(1) \in owned
  /\ CopiesIn(Recycled_new("P", T_new(2)), handles) = 1

\* C12. No upper bound on the stash: destroying a loaded handle appends its
\* reset value to the stash of its pool whatever the size is, so size() grows by
\* exactly one; nothing leaves a stash except the one value an acquisition pops;
\* after r attach-then-drop cycles on a fresh pool size() is N + r.
C12_Cycles ==
  \A p \in Pools :
    scen[p].phase = "attach_drop" => size(p) = initN[p] + scen[p].acq
C12_Step ==
  /\ \A h \in Handles :
       (is_some(h.value) /\ Drop(h)) =>
         /\ values'[h.pool] = Append(values[h.pool], reset(h.value[1]))
         /\ size(h.pool)' = size(h.pool) + 1
  /\ \A p \in Pools :
       (~panicked' /\ values'[p] # values[p] /\ size(p)' <= size(p)) =>
         /\ values'[p] = Front(values[p])
         /\ New(p) \/ Detached(p) \/ \E s \in Contents : NewFrom(p, s)
C12_Unbounded == [](C12_Cycles) /\ [][C12_Step]_vars
C12_Witness ==
  /\ scen["P"].phase = "attach_drop"
  /\ scen["P"].acq = 2
  /\ initN["P"] = 1
  /\ size("P") = 3
  /\ handles = EmptyBag

\* C13. A live handle's slot is never empty, so the empty-slot panic of deref,
\* deref_mut, as_ref, as_mut (and the unwrap in detach) is never reached.
\* The slot is the public field `value`: a caller can take the value out of a
\* live handle, and the next dereference or detach panics.
C13_SlotNeverEmpty ==
  /\ \A h \in Handles : is_some(h.value)
  /\ ~panicked

\* C15. Handle state machine: a handle is created Loaded and ends in exactly one
\* of two ways, both taken from Loaded: destruction, which pushes its reset
\* value once onto the stash of its pool and hands nothing to the caller, or
\* detach, which hands the value to the caller and pushes nothing.
C15_Step ==
  /\ \A p \in Pools :
       (New(p) \/ (\E s \in Contents : NewFrom(p, s)) \/ (\E v \in owned \cup External(Contents) : Attach(p, v))) =>
         \A h \in NewHandles : is_some(h.value)
  /\ \A h \in Handles :
       Drop(h) =>
         /\ is_some(h.value)
         /\ values'[h.pool] = Append(values[h.pool], reset(h.value[1]))
         /\ owned' = owned
  /\ \A h \in Handles :
       Detach(h) =>
         /\ is_some(h.value)
         /\ values' = values
         /\ owned' = owned \cup {h.value[1]}
C15_StateMachine == [][C15_Step]_vars

\* C16. No user code runs while the stash is mutably borrowed: whenever T::new,
\* reset or initialize_with is running (or suspended in a call it made), the
\* borrow flag of the stash is free.
C16_NoUserCodeUnderBorrow ==
  \A i \in DOMAIN frames : frames[i].op \in UserOps => borrow = "free"

\* a pool operation called by user code of the kinds ops is about to borrow the stash
ReentersFrom(ops) ==
  /\ ~panicked
  /\ Len(frames) >= 2
  /\ frames[Len(frames) - 1].op \in ops
  /\ Top.pc \in {"detached", "push", "borrow"}
\* a fresh constructor, called by detached on its empty-stash path, is in progress
InConstructor == \E j \in DOMAIN frames : frames[j].op = "T_new"

\* C17 as stated: a pool operation that reset or initialize_with calls finds the
\* stash mutably borrowed and fails.
C17_Original ==
  [][ReentersFrom({"reset", "initialize_with"}) => panicked']_vars
\* C17 amended: while reset or initialize_with runs the stash is not borrowed by
\* the operation that called it, and a pool operation it calls completes; the
\* stash is borrowed, and the call fails, exactly when all this happens inside a
\* fresh constructor that detached is running on its empty-stash path.
C17_WhileUserCodeRuns ==
  (~panicked /\ frames # <<>> /\ Top.op \in {"reset", "initialize_with"}) =>
    (borrow = "mut" <=> InConstructor)
C17_Step ==
  ReentersFrom({"reset", "initialize_with"}) => (panicked' <=> InConstructor)
C17_Reentry == [](C17_WhileUserCodeRuns) /\ [][C17_Step]_vars
\* reset, run by the drop of a handle, has called detached or new, which has
\* popped its value
C17_Witness ==
  /\ ~panicked
  /\ Len(frames) = 3
  /\ frames[1].op = "drop"
  /\ frames[2].op = "reset"
  /\ frames[3].op \in {"new", "detached"}
  /\ frames[3].pc = "got"

\* the number of places that hold the value with id i: stash slots, loaded
\* handles, bare values with the caller
Holders(i) ==
  Cardinality({k \in DOMAIN values["P"] : values["P"][k].id = i})
  + Cardinality({k \in DOMAIN values["Q"] : values["Q"][k].id = i})
  + BagCardinality([h \in {x \in Handles : is_some(x.value) /\ x.value[1].id = i}
                      |-> handles[h]])
  + Cardinality({v \in owned : v.id = i})

\* C18. Exclusive ownership: every value constructed so far is in at most one
\* place (one slot of one stash, one live handle, or bare with the caller), and
\* in exactly one until its holder drops it or a panic unwinds.
C18_ExclusiveOwner ==
  \A i \in 1..(nextId - 1) : Holders(i) <= 1
\* one value bare with the caller, one in a live handle, one idle in a stash
C18_Witness ==
  /\ nextId = 4
  /\ \A i \in 1..3 : Holders(i) = 1
  /\ Cardinality(owned) = 1
  /\ \E h \in Handles : is_some(h.value)
  /\ size("P") + size("Q") = 1

\* C19. Conservation of values: after any sequence of new, new_from, attach,
\* detached, detach and handle drops on a pool built by with_size(N),
\*   size() + live loaded handles
\*     = N + fresh constructions on an empty stash + attach calls
\*         - Recycled::detach calls - Pool::detached calls.
C19_Conservation ==
  size(CP) + BagCardinality([h \in Loaded(CP) |-> handles[h]])
    = initN[CP] + calls.fresh + calls.attach - calls.detach - calls.detached
\* every kind of call has been made, and values are both idle and on loan
C19_Witness ==
  /\ calls.fresh >= 1
  /\ calls.attach >= 1
  /\ calls.detach >= 1
  /\ calls.detached >= 1
  /\ size(CP) >= 1
  /\ Loaded(CP) # {}
  /\ size(CP) + BagCardinality([h \in Loaded(CP) |-> handles[h]]) > initN[CP]
====
